---- MODULE Spec2Model ----
(***************************************************************************)
(* Model of PythonPipes: emap / efilter / ereduce                          *)
(* (piped_map_filter_reduce.py) and esum / esorted / ereversed             *)
(* (piped_sorted_reversed_sum.py).                                         *)
(*                                                                         *)
(* Python values are records [tag, i, l]:                                  *)
(*   "int"   an int i                                                      *)
(*   "list"  a list of ints l                                              *)
(*   "iter"  a lazy result (map / filter / reversed object) that yields l  *)
(*   "none"  None                                                          *)
(*   "partial"  a deferred object (PartialBase subclass or PartialPipe)    *)
(*   "TypeError"  the call raised TypeError (for a lazy result: it raises  *)
(*                while its elements are drawn)                            *)
(***************************************************************************)
EXTENDS Integers, Sequences, FiniteSets, TLC

VARIABLES d, last

vars == <<d, last>>

\* ------------------------------------------------------------------ bounds
MaxInt == 1      \* list elements and scalars are 0..MaxInt
MaxLen == 2      \* longest input list

\* ------------------------------------------------------------------ values
V(tag, i, l) == [tag |-> tag, i |-> i, l |-> l]
IntV(n) == V("int", n, <<>>)
ListV(s) == V("list", 0, s)
IterV(s) == V("iter", 0, s)
NoneV == V("none", 0, <<>>)
PartialV == V("partial", 0, <<>>)
TypeError == V("TypeError", 0, <<>>)

SeqsUpTo(S, n) == UNION {[1..k -> S] : k \in 0..n}

IntVals == {IntV(n) : n \in 0..MaxInt}
ListVals == {ListV(s) : s \in SeqsUpTo(0..MaxInt, MaxLen)}
ArgVals == IntVals \cup ListVals
\* values used as initial / start values and other trailing arguments
ExtraVals == IntVals \cup {ListV(<<>>)}
\* the positional arguments of a wrapper call (after the function, if any):
\* none, one value, or two (reduce and sum take at most iterable and initial /
\* start; map, filter, sorted, reversed fewer): a list and a trailing
\* argument, or the non-iterable 0 and a trailing argument
ArgSeqs ==
  {<<>>} \cup {<<a>> : a \in ArgVals}
         \cup {<<a, e>> : a \in ListVals \cup {IntV(0)}, e \in ExtraVals}

\* keyword arguments: a dict is a function from the keys present to values
KwNames == {"reverse"}
KwVals == {IntV(0), IntV(1)}
EmptyKw == [k \in {} |-> IntV(0)]
Kwargs == UNION {[D -> KwVals] : D \in SUBSET KwNames}

\* what a call of a deferred object passes after the iterable, as a pair of
\* extra positional arguments and keyword arguments: nothing, one positional
\* argument, or one keyword argument
CallArgs ==
  {<<(<<>>), l>> : l \in Kwargs} \cup {<<(<<e>>), EmptyKw>> : e \in ExtraVals}

\* the user functions: lambda x: x*2 and lambda a, b: a+b
Funcs == {"double", "add"}

\* ------------------------------------------------- python built-in behaviour
\* hasattr(x, "__iter__")
hasattr_iter(x) == x.tag \in {"list", "iter"}

\* bool(x)
truthy(x) ==
  CASE x.tag = "int" -> x.i # 0
    [] x.tag = "list" -> Len(x.l) > 0
    [] x.tag = "none" -> FALSE
    [] OTHER -> TRUE

Arity(f) == IF f = "add" THEN 2 ELSE 1

\* a + b
BinAdd(a, b) ==
  IF a.tag = "int" /\ b.tag = "int" THEN IntV(a.i + b.i)
  ELSE IF a.tag = "list" /\ b.tag = "list" THEN ListV(a.l \o b.l)
  ELSE TypeError

\* f(*xs)
FApply(f, xs) ==
  IF Len(xs) # Arity(f) THEN TypeError
  ELSE CASE f = "double" -> (IF xs[1].tag = "int" THEN IntV(2 * xs[1].i)
                             ELSE IF xs[1].tag = "list" THEN ListV(xs[1].l \o xs[1].l)
                             ELSE TypeError)
         [] f = "add" -> BinAdd(xs[1], xs[2])

Min(S) == CHOOSE m \in S : \A n \in S : m <= n

RECURSIVE Fold(_, _, _)
\* acc = f(acc, x) for x in s, stopping at the first error
Fold(f, acc, s) ==
  IF acc = TypeError \/ s = <<>> THEN acc
  ELSE Fold(f, FApply(f, <<acc, IntV(Head(s))>>), Tail(s))

RECURSIVE Insert(_, _)
Insert(x, s) ==
  IF s = <<>> THEN <<x>>
  ELSE IF x < Head(s) THEN <<x>> \o s
  ELSE <<Head(s)>> \o Insert(x, Tail(s))

RECURSIVE SortAsc(_)
SortAsc(s) == IF s = <<>> THEN <<>> ELSE Insert(Head(s), SortAsc(Tail(s)))

Reverse(s) == [j \in 1..Len(s) |-> s[Len(s) + 1 - j]]

\* map(f, *its, **kw), by the elements it yields
py_map(f, its, kw) ==
  IF DOMAIN kw # {} \/ Len(its) = 0 THEN TypeError
  ELSE IF \E k \in 1..Len(its) : ~hasattr_iter(its[k]) THEN TypeError
  ELSE LET n == Min({Len(its[k].l) : k \in 1..Len(its)})
           el(j) == FApply(f, [k \in 1..Len(its) |-> IntV(its[k].l[j])])
       IN IF n = 0 THEN IterV(<<>>)
          ELSE IF Arity(f) # Len(its) THEN TypeError
          ELSE IterV([j \in 1..n |-> el(j).i])

\* filter(f, *its, **kw), by the elements it yields
py_filter(f, its, kw) ==
  IF DOMAIN kw # {} \/ Len(its) # 1 THEN TypeError
  ELSE IF ~hasattr_iter(its[1]) THEN TypeError
  ELSE IF its[1].l = <<>> THEN IterV(<<>>)
  ELSE IF Arity(f) # 1 THEN TypeError
  ELSE LET keep(x) == truthy(FApply(f, <<IntV(x)>>))
       IN IterV(SelectSeq(its[1].l, keep))

\* functools.reduce(f, *a, **kw) with a = (iterable[, initial])
py_reduce(f, a, kw) ==
  IF DOMAIN kw # {} \/ Len(a) \notin {1, 2} THEN TypeError
  ELSE IF ~hasattr_iter(a[1]) THEN TypeError
  ELSE IF Len(a) = 2 THEN Fold(f, a[2], a[1].l)
  ELSE IF a[1].l = <<>> THEN TypeError
  ELSE Fold(f, IntV(Head(a[1].l)), Tail(a[1].l))

\* sum(*a, **kw) with a = (iterable[, start])
py_sum(a, kw) ==
  IF ~(DOMAIN kw \subseteq {"start"}) \/ Len(a) \notin {1, 2} THEN TypeError
  ELSE IF Len(a) = 2 /\ "start" \in DOMAIN kw THEN TypeError
  ELSE IF ~hasattr_iter(a[1]) THEN TypeError
  ELSE LET start == IF Len(a) = 2 THEN a[2]
                    ELSE IF "start" \in DOMAIN kw THEN kw["start"] ELSE IntV(0)
       IN Fold("add", start, a[1].l)

\* sorted(*a, **kw) with a = (iterable,) and kw within {reverse}
py_sorted(a, kw) ==
  IF ~(DOMAIN kw \subseteq {"reverse"}) \/ Len(a) # 1 THEN TypeError
  ELSE IF ~hasattr_iter(a[1]) THEN TypeError
  ELSE IF "reverse" \in DOMAIN kw /\ kw["reverse"].tag # "int" THEN TypeError
  ELSE IF "reverse" \in DOMAIN kw /\ kw["reverse"].i # 0
       THEN ListV(Reverse(SortAsc(a[1].l)))
       ELSE ListV(SortAsc(a[1].l))

\* reversed(*a, **kw) with a = (sequence,)
py_reversed(a, kw) ==
  IF DOMAIN kw # {} \/ Len(a) # 1 THEN TypeError
  ELSE IF a[1].tag # "list" THEN TypeError
  ELSE IterV(Reverse(a[1].l))

\* a call of a built-in primitive: name(f, *args, **kw), f = "" when there is none
PrimCall(name, f, args, kw) == [name |-> name, f |-> f, args |-> args, kw |-> kw]
NoCall == PrimCall("none", "", <<>>, EmptyKw)

Primitive(c) ==
  CASE c.name = "map" -> py_map(c.f, c.args, c.kw)
    [] c.name = "filter" -> py_filter(c.f, c.args, c.kw)
    [] c.name = "reduce" -> py_reduce(c.f, c.args, c.kw)
    [] c.name = "sum" -> py_sum(c.args, c.kw)
    [] c.name = "sorted" -> py_sorted(c.args, c.kw)
    [] c.name = "reversed" -> py_reversed(c.args, c.kw)
    [] OTHER -> TypeError

\* ------------------------------------------------------- deferred objects
\* the fields __init__ sets; cls is the class of the object
Obj(cls, fn, args, kwargs) == [cls |-> cls, function |-> fn, args |-> args, kwargs |-> kwargs]
NoObj == Obj("none", "", <<>>, EmptyKw)

\* what an operation does: the value it returns, the primitive call it makes
\* (NoCall if none), and the object it constructs (a wrapper) or the state of
\* self when it returns (a method of a deferred object); NoObj if neither
Out(res, obj, call) == [res |-> res, obj |-> obj, call |-> call]
Applied(obj, call) == Out(Primitive(call), obj, call)

\* {**a, **b}
DictMerge(a, b) ==
  [k \in DOMAIN a \cup DOMAIN b |-> IF k \in DOMAIN b THEN b[k] ELSE a[k]]

\* ------------------------------------------- piped_map_filter_reduce.py
PartialBaseClasses == {"PartialMap", "PartialFilter", "PartialReduce"}

transformation(self) ==
  CASE self.cls = "PartialMap" -> "map"
    [] self.cls = "PartialFilter" -> "filter"
    [] self.cls = "PartialReduce" -> "reduce"

PartialBase_init(cls, fn, args, kwargs) == Obj(cls, fn, args, kwargs)

\* as PartialBase_call, with self.kwargs.update(kwargs) in place of the fresh dict
PartialBase_call_update(self, iterable, args, kwargs) ==
  LET updated == [self EXCEPT !.kwargs = DictMerge(self.kwargs, kwargs)]
  IN Applied(updated, PrimCall(transformation(self), self.function,
                               <<iterable>> \o self.args \o args, updated.kwargs))

\* as PartialBase_call, with the call-time arguments ahead of the stored ones
PartialBase_call_swapped(self, iterable, args, kwargs) ==
  LET updated_kwargs == DictMerge(self.kwargs, kwargs)
  IN Applied(self, PrimCall(transformation(self), self.function,
                            <<iterable>> \o args \o self.args, updated_kwargs))

PartialBase_call(self, iterable, args, kwargs) ==
  LET updated_kwargs == DictMerge(self.kwargs, kwargs)
  IN Applied(self, PrimCall(transformation(self), self.function,
                            <<iterable>> \o self.args \o args, updated_kwargs))

\* as PartialBase_ror, applying the transformation without the stored arguments
PartialBase_ror_bare(self, iterable) ==
  Applied(self, PrimCall(transformation(self), self.function, <<iterable>>, EmptyKw))

PartialBase_ror(self, iterable) == PartialBase_call(self, iterable, <<>>, EmptyKw)

emap(fn, iterable) ==
  IF truthy(iterable)
  THEN Applied(NoObj, PrimCall("map", fn, <<iterable>>, EmptyKw))
  ELSE Out(PartialV, PartialBase_init("PartialMap", fn, <<>>, EmptyKw), NoCall)

efilter(fn, iterable) ==
  IF truthy(iterable)
  THEN Applied(NoObj, PrimCall("filter", fn, <<iterable>>, EmptyKw))
  ELSE Out(PartialV, PartialBase_init("PartialFilter", fn, <<>>, EmptyKw), NoCall)

\* as ereduce, testing the truth value of args[0] as emap and efilter do
ereduce_truthy(fn, args) ==
  IF args # <<>> /\ truthy(args[1])
  THEN Applied(NoObj, PrimCall("reduce", fn, args, EmptyKw))
  ELSE Out(PartialV, PartialBase_init("PartialReduce", fn, args, EmptyKw), NoCall)

\* as ereduce, applying reduce whenever any argument follows the function
ereduce_eager(fn, args) ==
  IF args # <<>>
  THEN Applied(NoObj, PrimCall("reduce", fn, args, EmptyKw))
  ELSE Out(PartialV, PartialBase_init("PartialReduce", fn, args, EmptyKw), NoCall)

ereduce(fn, args) ==
  IF args # <<>> /\ hasattr_iter(args[1])
  THEN Applied(NoObj, PrimCall("reduce", fn, args, EmptyKw))
  ELSE Out(PartialV, PartialBase_init("PartialReduce", fn, args, EmptyKw), NoCall)

\* ------------------------------------------ piped_sorted_reversed_sum.py
Wrappers == {"esum", "esorted", "ereversed"}

\* ESum.function, ESorted.function, EReversed.function
function(w) ==
  CASE w = "esum" -> "sum"
    [] w = "esorted" -> "sorted"
    [] w = "ereversed" -> "reversed"

PartialPipe_init(fn, args, kwargs) == Obj("PartialPipe", fn, args, kwargs)

\* __call__(self, iterable): the signature takes the iterable only, so a call
\* that also passes keyword arguments raises TypeError before the body runs
\* as PartialPipe_call, taking **kwargs and merging them over the stored ones
PartialPipe_call_merging(self, iterable, kwargs) ==
  Applied(self, PrimCall(self.function, "", <<iterable>> \o self.args,
                         DictMerge(self.kwargs, kwargs)))

PartialPipe_call(self, iterable, kwargs) ==
  IF DOMAIN kwargs # {} THEN Out(TypeError, self, NoCall)
  ELSE Applied(self, PrimCall(self.function, "", <<iterable>> \o self.args, self.kwargs))

PartialPipe_ror(self, iterable) == PartialPipe_call(self, iterable, EmptyKw)

\* as FunctionPartialPipe_call, testing the truth value of args[0]
FunctionPartialPipe_call_truthy(w, args, kwargs) ==
  IF args # <<>> /\ truthy(args[1])
  THEN Applied(NoObj, PrimCall(function(w), "", args, kwargs))
  ELSE Out(PartialV, PartialPipe_init(function(w), args, kwargs), NoCall)

FunctionPartialPipe_call(w, args, kwargs) ==
  IF args # <<>> /\ hasattr_iter(args[1])
  THEN Applied(NoObj, PrimCall(function(w), "", args, kwargs))
  ELSE Out(PartialV, PartialPipe_init(function(w), args, kwargs), NoCall)

\* as FunctionPartialPipe_ror, deferring instead of applying
FunctionPartialPipe_ror_deferring(w, iterable) ==
  Out(PartialV, PartialPipe_init(function(w), <<iterable>>, EmptyKw), NoCall)

FunctionPartialPipe_ror(w, iterable) ==
  Applied(NoObj, PrimCall(function(w), "", <<iterable>>, EmptyKw))

\* ------------------------------------------------------------ the program
\* d: the deferred object the most recent wrapper call returned (NoObj if it
\*    applied the primitive at once); last: the most recent operation, its
\*    arguments, the object it was called on as it was before the call, its
\*    outcome, and whether that object had been applied before
Rec(op, fn, args, kwargs, self, out, again) ==
  [op |-> op, fn |-> fn, args |-> args, kwargs |-> kwargs, self |-> self,
   res |-> out.res, call |-> out.call, again |-> again]

\* A run is one wrapper call followed by any number of applications of the
\* object it returned, if it deferred: the modules keep no state of their own,
\* so a wrapper call depends on nothing that came before it. An iterable may
\* be piped into esum, esorted or ereversed at the start or while a deferred
\* object of that family is held.

\* the most recent operation applied the deferred object d
AppliedBefore == last.op \in {"call", "ror"}

Init ==
  /\ d = NoObj
  /\ last = Rec("init", "", <<>>, EmptyKw, NoObj, Out(NoneV, NoObj, NoCall), FALSE)

\* emap(f) or emap(f, it)
Emap(f, it) ==
  /\ last.op = "init"
  /\ LET out == emap(f, it)
     IN /\ d' = out.obj
        /\ last' = Rec("emap", f, <<it>>, EmptyKw, NoObj, out, FALSE)

\* efilter(f) or efilter(f, it)
Efilter(f, it) ==
  /\ last.op = "init"
  /\ LET out == efilter(f, it)
     IN /\ d' = out.obj
        /\ last' = Rec("efilter", f, <<it>>, EmptyKw, NoObj, out, FALSE)

\* ereduce(f, *a)
Ereduce(f, a) ==
  /\ last.op = "init"
  /\ LET out == ereduce(f, a)
     IN /\ d' = out.obj
        /\ last' = Rec("ereduce", f, a, EmptyKw, NoObj, out, FALSE)

\* w(*a, **k) for w one of esum, esorted, ereversed
WrapperCall(w, a, k) ==
  /\ last.op = "init"
  /\ LET out == FunctionPartialPipe_call(w, a, k)
     IN /\ d' = out.obj
        /\ last' = Rec("wcall", w, a, k, NoObj, out, FALSE)

\* s | w
WrapperRor(w, s) ==
  /\ last.op \in {"init", "wcall"}
  /\ LET out == FunctionPartialPipe_ror(w, s)
     IN /\ d' = d
        /\ last' = Rec("wror", w, <<s>>, EmptyKw, NoObj, out, FALSE)

\* d(s, *b, **l) for d a PartialMap, PartialFilter or PartialReduce
BaseCall(s, b, l) ==
  /\ d.cls \in PartialBaseClasses
  /\ LET out == PartialBase_call(d, s, b, l)
     IN /\ d' = out.obj
        /\ last' = Rec("call", d.function, <<s>> \o b, l, d, out, AppliedBefore)

\* s | d for d a PartialMap, PartialFilter or PartialReduce
BaseRor(s) ==
  /\ d.cls \in PartialBaseClasses
  /\ LET out == PartialBase_ror(d, s)
     IN /\ d' = out.obj
        /\ last' = Rec("ror", d.function, <<s>>, EmptyKw, d, out, AppliedBefore)

\* d(s, **l) for d a PartialPipe
PipeCall(s, l) ==
  /\ d.cls = "PartialPipe"
  /\ LET out == PartialPipe_call(d, s, l)
     IN /\ d' = out.obj
        /\ last' = Rec("call", d.function, <<s>>, l, d, out, AppliedBefore)

\* s | d for d a PartialPipe
PipeRor(s) ==
  /\ d.cls = "PartialPipe"
  /\ LET out == PartialPipe_ror(d, s)
     IN /\ d' = out.obj
        /\ last' = Rec("ror", d.function, <<s>>, EmptyKw, d, out, AppliedBefore)

Next ==
  \/ \E f \in Funcs, it \in ArgVals \cup {NoneV} : Emap(f, it)
  \/ \E f \in Funcs, it \in ArgVals \cup {NoneV} : Efilter(f, it)
  \/ \E f \in Funcs, a \in ArgSeqs : Ereduce(f, a)
  \/ \E w \in Wrappers, a \in ArgSeqs, k \in Kwargs : WrapperCall(w, a, k)
  \/ \E w \in Wrappers, s \in ArgVals : WrapperRor(w, s)
  \/ \E s \in ArgVals, c \in CallArgs : BaseCall(s, c[1], c[2])
  \/ \E s \in ArgVals : BaseRor(s)
  \/ \E s \in ArgVals, l \in Kwargs : PipeCall(s, l)
  \/ \E s \in ArgVals : PipeRor(s)

Spec == Init /\ [][Next]_vars

\* ------------------------------------------------------------ properties
IsList(x) == x.tag = "list"
Reverse0 == [k \in {"reverse"} |-> IntV(0)]
Reverse1 == [k \in {"reverse"} |-> IntV(1)]
\* the most recent operation called (call) or was piped into (ror) a deferred
\* object of one of the classes in C
AppliedTo(op, C) == last.op = op /\ last.self.cls \in C

\* C1: emap(f, s) with s a sequence, the empty one included, returns what
\* map(f, s) yields and never a deferred operation.
C1_EmapSequenceIsImmediate ==
  (last.op = "emap" /\ IsList(last.args[1])) =>
    /\ last.res = py_map(last.fn, <<last.args[1]>>, EmptyKw)
    /\ last.res # PartialV
    /\ d = NoObj

\* C2: for every f and sequence s, the empty one included, emap(f)(s) yields
\* the same elements as emap(f, s).
C2_DeferredEqualsImmediate ==
  (/\ AppliedTo("call", {"PartialMap"})
   /\ Len(last.args) = 1 /\ IsList(last.args[1]) /\ last.kwargs = EmptyKw) =>
    last.res = emap(last.fn, last.args[1]).res

\* the esorted deferred operation storing reverse=False and nothing else is
\* invoked on a list with the keyword arguments l
SortedStoredFalse(l) ==
  /\ AppliedTo("call", {"PartialPipe"})
  /\ last.self = Obj("PartialPipe", "sorted", <<>>, Reverse0)
  /\ IsList(last.args[1])
  /\ last.kwargs = l

\* C3, as claimed: esorted(reverse=False)(s, reverse=True) returns s sorted in
\* descending order, the call-time keyword overriding the stored one.
C3_CallTimeReverseWins ==
  SortedStoredFalse(Reverse1) => last.res = ListV(Reverse(SortAsc(last.args[1].l)))

\* C3, amended: esorted(reverse=False)(s, reverse=True) raises TypeError
\* without calling sorted, as a deferred operation of this family takes the
\* iterable only; esorted(reverse=False)(s) returns s sorted in ascending
\* order, by the stored keyword.
C3_CallTimeKeywordRejected ==
  /\ SortedStoredFalse(Reverse1) => (last.res = TypeError /\ last.call = NoCall)
  /\ SortedStoredFalse(EmptyKw) => last.res = ListV(SortAsc(last.args[1].l))

C3_Witness ==
  /\ SortedStoredFalse(Reverse1)
  /\ last.args[1] = ListV(<<0, 1>>)
  /\ last.res = TypeError

\* what the application recorded in last has to return, from the object as it
\* was before the application and this application's own arguments
ExpectedOfApplication ==
  LET s == last.args[1]
      o == last.self
  IN CASE o.cls = "PartialMap" ->
            py_map(o.function, <<s>> \o o.args \o Tail(last.args), last.kwargs)
       [] o.cls = "PartialFilter" ->
            py_filter(o.function, <<s>> \o o.args \o Tail(last.args), last.kwargs)
       [] o.cls = "PartialReduce" ->
            py_reduce(o.function, <<s>> \o o.args \o Tail(last.args), last.kwargs)
       [] o.cls = "PartialPipe" /\ last.kwargs # EmptyKw -> TypeError
       [] o.cls = "PartialPipe" /\ o.function = "sum" -> py_sum(<<s>> \o o.args, o.kwargs)
       [] o.cls = "PartialPipe" /\ o.function = "sorted" -> py_sorted(<<s>> \o o.args, o.kwargs)
       [] o.cls = "PartialPipe" /\ o.function = "reversed" -> py_reversed(<<s>> \o o.args, o.kwargs)

\* C4: applying a deferred operation, by call or by pipe, leaves its stored
\* function, positional and keyword arguments as they were, also when
\* call-time keywords are merged in; each application, the first or a later
\* one, returns the primitive applied to its own iterable.
C4_ApplicationLeavesObject ==
  last.op \in {"call", "ror"} =>
    /\ d = last.self
    /\ d # NoObj
    /\ last.res = ExpectedOfApplication

C4_Witness ==
  /\ AppliedTo("ror", {"PartialFilter"})
  /\ last.again
  /\ d = Obj("PartialFilter", "double", <<>>, EmptyKw)
  /\ last.args[1] = ListV(<<0, 1>>)
  /\ last.res = IterV(<<1>>)

\* C5: for a deferred operation D of either family and any s, s | D has the
\* outcome, value or error, of the call D(s) with s as its sole argument.
C5_PipeIsCall ==
  /\ AppliedTo("ror", PartialBaseClasses) =>
       /\ last.res = PartialBase_call(last.self, last.args[1], <<>>, EmptyKw).res
       /\ d = PartialBase_call(last.self, last.args[1], <<>>, EmptyKw).obj
  /\ AppliedTo("ror", {"PartialPipe"}) =>
       /\ last.res = PartialPipe_call(last.self, last.args[1], EmptyKw).res
       /\ d = PartialPipe_call(last.self, last.args[1], EmptyKw).obj

C5_Witness ==
  /\ AppliedTo("ror", {"PartialReduce"})
  /\ last.self.args = <<IntV(1)>>
  /\ last.args[1] = ListV(<<1, 1>>)
  /\ last.res = IntV(3)

\* the primitive a wrapper of the second family wraps, on s alone
PrimitiveOf(w, s) ==
  CASE w = "esum" -> py_sum(<<s>>, EmptyKw)
    [] w = "esorted" -> py_sorted(<<s>>, EmptyKw)
    [] w = "ereversed" -> py_reversed(<<s>>, EmptyKw)

\* C6: for W one of esum, esorted, ereversed and s an iterable, s | W returns
\* primitive(s), which is also what W(s) and W()(s) return; a deferred
\* operation W produced before is not consulted and stays as it was.
C6_PipeIntoWrapper ==
  (last.op = "wror" /\ IsList(last.args[1])) =>
    LET s == last.args[1]
        now == FunctionPartialPipe_call(last.fn, <<s>>, EmptyKw)
        later == FunctionPartialPipe_call(last.fn, <<>>, EmptyKw)
    IN /\ last.res = PrimitiveOf(last.fn, s)
       /\ last.res = now.res
       /\ later.res = PartialV
       /\ last.res = PartialPipe_call(later.obj, s, EmptyKw).res

C6_Witness ==
  /\ last.op = "wror" /\ last.fn = "esorted"
  /\ d = Obj("PartialPipe", "sorted", <<>>, Reverse1)
  /\ last.args[1] = ListV(<<1, 0>>)
  /\ last.res = ListV(<<0, 1>>)

\* C7: ereduce(f, s, init) with s a sequence, the empty one included, applies
\* reduce at once and returns reduce(f, s, init): for empty s that is init, and
\* no deferred operation is produced.
C7_ReduceWithInitialIsImmediate ==
  (last.op = "ereduce" /\ Len(last.args) = 2 /\ IsList(last.args[1])) =>
    /\ last.res = py_reduce(last.fn, last.args, EmptyKw)
    /\ last.res # PartialV
    /\ d = NoObj
    /\ last.args[1].l = <<>> => last.res = last.args[2]

C7_Witness ==
  /\ last.op = "ereduce" /\ last.fn = "add"
  /\ last.args = <<ListV(<<>>), IntV(0)>>
  /\ last.res = IntV(0)

\* C8: a deferred operation of the first family with stored function f,
\* positional extras A and keywords K, invoked as D(s, *B, **L), calls
\* primitive(f, s, *A, *B, **M), M holding the keys of K and L with L's value
\* where both have one; ereduce(f, init)(s) and ereduce(f)(s, init) are
\* reduce(f, s, init).
C8_CallPassesStoredThenNew ==
  AppliedTo("call", PartialBaseClasses) =>
    LET o == last.self
        s == last.args[1]
        B == Tail(last.args)
        M == last.call.kw
    IN /\ last.call.name = transformation(o)
       /\ last.call.f = o.function
       /\ last.call.args = <<s>> \o o.args \o B
       /\ DOMAIN M = DOMAIN o.kwargs \cup DOMAIN last.kwargs
       /\ \A k \in DOMAIN last.kwargs : M[k] = last.kwargs[k]
       /\ \A k \in DOMAIN o.kwargs \ DOMAIN last.kwargs : M[k] = o.kwargs[k]
       /\ last.res = Primitive(last.call)
       /\ (o.cls = "PartialReduce" /\ last.kwargs = EmptyKw /\ Len(o.args) + Len(B) = 1) =>
            last.res = py_reduce(o.function, <<s>> \o o.args \o B, EmptyKw)

C8_Witness ==
  /\ AppliedTo("call", {"PartialReduce"})
  /\ last.self.args = <<IntV(1)>>
  /\ last.args = <<ListV(<<1, 0>>)>>
  /\ last.res = IntV(2)

\* C9: W(*a, **k) for W one of esum, esorted, ereversed either returns
\* primitive(*a, **k) at once, exactly when a is non-empty and a[0] is
\* iterable, or returns a deferred operation storing a and k, which applied
\* to s returns primitive(s, *a, **k).
C9_ImmediateOrDeferred ==
  /\ last.op = "wcall" =>
       IF last.args # <<>> /\ IsList(last.args[1])
       THEN /\ last.res = Primitive(PrimCall(function(last.fn), "", last.args, last.kwargs))
            /\ last.res # PartialV
            /\ d = NoObj
       ELSE /\ last.res = PartialV
            /\ last.call = NoCall
            /\ d = Obj("PartialPipe", function(last.fn), last.args, last.kwargs)
  /\ (AppliedTo("call", {"PartialPipe"}) /\ last.kwargs = EmptyKw) =>
       last.res = Primitive(PrimCall(last.self.function, "",
                                     <<last.args[1]>> \o last.self.args, last.self.kwargs))

C9_Witness ==
  /\ AppliedTo("call", {"PartialPipe"})
  /\ last.self = Obj("PartialPipe", "sum", <<IntV(1)>>, EmptyKw)
  /\ last.args = <<ListV(<<1, 1>>)>>
  /\ last.res = IntV(3)

\* ereduce(f, x) was called with x not iterable
ReduceOfNonIterable ==
  last.op = "ereduce" /\ Len(last.args) = 1 /\ ~IsList(last.args[1])

\* C10, as claimed: ereduce(f, x) with x not iterable raises an error from
\* reduce and returns no deferred operation.
C10_NonIterableRaises ==
  ReduceOfNonIterable => (last.res = TypeError /\ d = NoObj)

\* C10, amended: ereduce(f, x) with x not iterable raises nothing and calls no
\* primitive: it returns a deferred operation storing x, which applied to s
\* alone returns reduce(f, s, x).
C10_NonIterableDefers ==
  /\ ReduceOfNonIterable =>
       /\ last.res = PartialV
       /\ last.call = NoCall
       /\ d = Obj("PartialReduce", last.fn, last.args, EmptyKw)
  /\ (/\ AppliedTo("call", {"PartialReduce"})
      /\ Len(last.self.args) = 1 /\ ~IsList(last.self.args[1])
      /\ Len(last.args) = 1 /\ last.kwargs = EmptyKw) =>
       last.res = py_reduce(last.fn, <<last.args[1], last.self.args[1]>>, EmptyKw)

C10_Witness ==
  /\ ReduceOfNonIterable
  /\ last.args = <<IntV(1)>>
  /\ d = Obj("PartialReduce", "add", <<IntV(1)>>, EmptyKw)

====
